---- MODULE Spec2Model ----
(***************************************************************************)
(* Wind Report: the /api/windstorms handler of the radius-capable server   *)
(* (src/unnamed/part_002, mirrored by the serverless handler of            *)
(* src/unnamed/part_001).                                                  *)
(*                                                                         *)
(* Four specifications share this module:                                 *)
(*   Spec          the server: overlapping requests, the process-wide      *)
(*                 directory-listing cache, the on-disk file cache, the    *)
(*                 year scan of each request and its response;             *)
(*   ResolverSpec  getLatestStormFilename applied to bounded listings;     *)
(*   AggSpec       the row handler of getWindEventsForYear and the         *)
(*                 sort / radius / dedup / shape steps applied to bounded  *)
(*                 combinations of input rows;                             *)
(*   CountySpec    the same row handler applied to rows that differ in     *)
(*                 their county name only, for targets with and without    *)
(*                 a county.                                               *)
(*                                                                         *)
(* Units.  A Date is a day number (days since 1970-01-01, UTC) together    *)
(* with the milliseconds of that day where the code keeps a time of day;   *)
(* magnitudes and coordinates are tenths (Number.parseFloat of a text      *)
(* with at most one decimal); distances are thousandths of a mile.         *)
(***************************************************************************)
EXTENDS Integers, Sequences, FiniteSets, TLC

\* null / undefined of a text-valued field (geo.county, geo.state, html)
NULL == "null"
\* A number that may be absent is a sequence: <<v>> is the number v, <<>> is
\* NaN (Number.parseFloat) or null (parseNoaaDate, an event's lat and lon).
NaN == <<>>
None == <<>>
Num(v) == <<v>>

\* ------------------------------------------------------------------------
\* Strings (JavaScript String methods and the regular expressions used)
\* ------------------------------------------------------------------------

Chr(s, i) == SubSeq(s, i, i)

Digits == "0123456789"
UpperAZ == "ABCDEFGHIJKLMNOPQRSTUVWXYZ"
LowerAZ == "abcdefghijklmnopqrstuvwxyz"

\* position of the one-character string c in s, 0 when absent
IndexIn(c, s) ==
  LET hits == {i \in 1..Len(s) : Chr(s, i) = c}
  IN IF hits = {} THEN 0 ELSE CHOOSE i \in hits : \A j \in hits : i <= j

DigitChars == {Chr(Digits, i) : i \in 1..Len(Digits)}
UpperChars == {Chr(UpperAZ, i) : i \in 1..Len(UpperAZ)}
LowerChars == {Chr(LowerAZ, i) : i \in 1..Len(LowerAZ)}
DigitValues == [c \in DigitChars |-> IndexIn(c, Digits) - 1]
ToLower == [c \in UpperChars |-> Chr(LowerAZ, IndexIn(c, UpperAZ))]
ToUpper == [c \in LowerChars |-> Chr(UpperAZ, IndexIn(c, LowerAZ))]

IsDigit(c) == c \in DigitChars
DigitVal(c) == DigitValues[c]
\* \s of the regular expressions, and the white space String.trim removes
IsSpace(c) == c = " " \/ c = "\t"

RECURSIVE toLowerCase(_)
toLowerCase(s) ==
  IF Len(s) = 0 THEN ""
  ELSE LET c == Chr(s, 1)
       IN (IF c \in UpperChars THEN ToLower[c] ELSE c) \o toLowerCase(SubSeq(s, 2, Len(s)))

RECURSIVE toUpperCase(_)
toUpperCase(s) ==
  IF Len(s) = 0 THEN ""
  ELSE LET c == Chr(s, 1)
       IN (IF c \in LowerChars THEN ToUpper[c] ELSE c) \o toUpperCase(SubSeq(s, 2, Len(s)))

RECURSIVE trimStart(_)
trimStart(s) ==
  IF Len(s) > 0 /\ IsSpace(Chr(s, 1)) THEN trimStart(SubSeq(s, 2, Len(s))) ELSE s

RECURSIVE trimEnd(_)
trimEnd(s) ==
  IF Len(s) > 0 /\ IsSpace(Chr(s, Len(s))) THEN trimEnd(SubSeq(s, 1, Len(s) - 1)) ELSE s

trim(s) == trimEnd(trimStart(s))

\* String.prototype.includes
includes(s, t) ==
  \E i \in 1..(Len(s) - Len(t) + 1) : SubSeq(s, i, i + Len(t) - 1) = t

\* s.split(" ")[0]
splitFirst(s) ==
  LET k == IndexIn(" ", s)
  IN IF k = 0 THEN s ELSE SubSeq(s, 1, k - 1)

\* String(n).padStart(2, "0")
padStart2(n) == IF Len(ToString(n)) < 2 THEN "0" \o ToString(n) ELSE ToString(n)

\* s.replace(/\s+word$/i, "") for a lower-case word: the white-space run that is
\* followed by the word (any case) at the very end of s is removed together with it
stripSuffixWord(s, word) ==
  LET n == Len(s)
      w == Len(word)
      tail == IF n >= w THEN toLowerCase(SubSeq(s, n - w + 1, n)) ELSE ""
      RECURSIVE runStart(_)
      runStart(i) == IF i > 1 /\ IsSpace(Chr(s, i - 1)) THEN runStart(i - 1) ELSE i
  IN IF n >= w + 1 /\ tail = word /\ IsSpace(Chr(s, n - w))
     THEN SubSeq(s, 1, runStart(n - w) - 1)
     ELSE s

\* s.replace(/[^a-z0-9\s]/g, " ")
RECURSIVE replaceNonAlnum(_)
replaceNonAlnum(s) ==
  IF Len(s) = 0 THEN ""
  ELSE LET c == Chr(s, 1)
           keep == c \in LowerChars \/ IsDigit(c) \/ IsSpace(c)
       IN (IF keep THEN c ELSE " ") \o replaceNonAlnum(SubSeq(s, 2, Len(s)))

\* s.replace(/\s+/g, " ")
RECURSIVE collapseSpaces(_)
collapseSpaces(s) ==
  IF Len(s) = 0 THEN ""
  ELSE IF IsSpace(Chr(s, 1))
       THEN " " \o collapseSpaces(trimStart(s))
       ELSE Chr(s, 1) \o collapseSpaces(SubSeq(s, 2, Len(s)))

normalizeName(value) ==
  IF value = NULL \/ value = "" THEN ""
  ELSE trim(collapseSpaces(replaceNonAlnum(stripSuffixWord(toLowerCase(value), "county"))))

\* ------------------------------------------------------------------------
\* Numbers
\* ------------------------------------------------------------------------

\* length of the run of decimal digits of s that starts at position i
RECURSIVE digitRun(_, _)
digitRun(s, i) ==
  IF i <= Len(s) /\ IsDigit(Chr(s, i)) THEN 1 + digitRun(s, i + 1) ELSE 0

\* Number(d) of a run of decimal digits
RECURSIVE digitsToNat(_)
digitsToNat(d) ==
  IF Len(d) = 0 THEN 0
  ELSE 10 * digitsToNat(SubSeq(d, 1, Len(d) - 1)) + DigitVal(Chr(d, Len(d)))

\* The decimal literal that starts the text s: an optional sign, digits, an
\* optional fraction.  value is in tenths (fraction digits after the first are
\* not represented), used is the number of characters of the literal, 0 when
\* no number starts s.
NumberPrefix(s) ==
  LET neg == Len(s) > 0 /\ Chr(s, 1) = "-"
      signed == Len(s) > 0 /\ (Chr(s, 1) = "-" \/ Chr(s, 1) = "+")
      b == IF signed THEN 2 ELSE 1
      ni == digitRun(s, b)
      dot == b + ni <= Len(s) /\ Chr(s, b + ni) = "."
      nf == IF dot THEN digitRun(s, b + ni + 1) ELSE 0
      whole == digitsToNat(SubSeq(s, b, b + ni - 1))
      tenth == IF nf > 0 THEN DigitVal(Chr(s, b + ni + 1)) ELSE 0
      mag == 10 * whole + tenth
  IN [value |-> IF neg THEN 0 - mag ELSE mag,
      used |-> IF ni = 0 /\ nf = 0 THEN 0
               ELSE (b - 1) + ni + (IF dot /\ (nf > 0 \/ ni > 0) THEN 1 + nf ELSE 0)]

\* Number.parseFloat: leading white space is skipped, what follows the literal is
\* ignored; NaN when no number starts the text
parseFloat(value) ==
  LET n == NumberPrefix(trimStart(value))
  IN IF n.used = 0 THEN NaN ELSE Num(n.value)

\* Number(value) of a query or JSON text: the whole trimmed text must be the
\* literal, the empty text is 0, undefined is NaN
NumberOf(value) ==
  IF value = NULL THEN NaN
  ELSE LET s == trim(value)
           n == NumberPrefix(s)
       IN IF s = "" THEN Num(0)
          ELSE IF n.used = 0 \/ n.used # Len(s) THEN NaN
          ELSE Num(n.value)

\* Number.isFinite of a parseFloat result
isFinite(x) == x # NaN

\* Math.round(x) of a value x in tenths: the nearest integer, halves upwards
MathRound(x) == (2 * x + 10) \div 20

\* Math.round(x * 1.15078) of a value x in tenths
KnotsToMph(x) == (2 * x * 115078 + 1000000) \div 2000000

\* ------------------------------------------------------------------------
\* Dates
\* ------------------------------------------------------------------------

\* day number of the proleptic Gregorian date y-m-d (m in 1..12, any d)
DaysFromCivil(y, m, d) ==
  LET yy == IF m <= 2 THEN y - 1 ELSE y
      era == yy \div 400
      yoe == yy - era * 400
      mp == IF m > 2 THEN m - 3 ELSE m + 9
      doy == (153 * mp + 2) \div 5 + d - 1
      doe == yoe * 365 + yoe \div 4 - yoe \div 100 + doy
  IN era * 146097 + doe - 719468

\* the date [y, m, d] of a day number
CivilFromDays(z) ==
  LET zz == z + 719468
      era == zz \div 146097
      doe == zz - era * 146097
      yoe == (doe - doe \div 1460 + doe \div 36524 - doe \div 146096) \div 365
      doy == doe - (365 * yoe + yoe \div 4 - yoe \div 100)
      mp == (5 * doy + 2) \div 153
      d == doy - (153 * mp + 2) \div 5 + 1
      m == IF mp < 10 THEN mp + 3 ELSE mp - 9
  IN [y |-> yoe + era * 400 + (IF m <= 2 THEN 1 ELSE 0), m |-> m, d |-> d]

\* new Date(Date.UTC(year, monthIndex, day)): months and days overflow into the
\* next year and month, a year 0..99 means 1900 + year
DateUTC(year, monthIndex, day) ==
  LET y0 == IF year >= 0 /\ year <= 99 THEN 1900 + year ELSE year
  IN DaysFromCivil(y0 + monthIndex \div 12, (monthIndex % 12) + 1, 1) + day - 1

getUTCFullYear(date) == CivilFromDays(date).y

Months == <<"JAN", "FEB", "MAR", "APR", "MAY", "JUN",
            "JUL", "AUG", "SEP", "OCT", "NOV", "DEC">>

parseNoaaDate(value) ==
  IF value = "" THEN None
  ELSE LET str == trim(value)
           n1 == IF digitRun(str, 1) > 2 THEN 2 ELSE digitRun(str, 1)
           first == digitsToNat(SubSeq(str, 1, n1))
           sep == IF n1 >= 1 /\ Len(str) > n1 THEN Chr(str, n1 + 1) ELSE ""
           \* /^(\d{1,2})\/(\d{1,2})\/(\d{4})/
           r2 == digitRun(str, n1 + 2)
           n2 == IF r2 > 2 THEN 2 ELSE r2
           p3 == n1 + n2 + 3
           slashMatch == sep = "/" /\ n2 >= 1 /\ Len(str) >= p3 - 1
                         /\ Chr(str, p3 - 1) = "/" /\ digitRun(str, p3) >= 4
           \* /^(\d{1,2})-([A-Z]{3})-(\d{2,4})/i
           monthStr == toUpperCase(SubSeq(str, n1 + 2, n1 + 4))
           letters == Len(str) >= n1 + 4
                      /\ \A i \in (n1 + 2)..(n1 + 4) : Chr(monthStr, i - n1 - 1) \in UpperChars
           ry == digitRun(str, n1 + 6)
           ny == IF ry > 4 THEN 4 ELSE ry
           dashMatch == sep = "-" /\ letters /\ Len(str) >= n1 + 5
                        /\ Chr(str, n1 + 5) = "-" /\ ny >= 2
           month == {i \in 1..12 : Months[i] = monthStr}
           year0 == digitsToNat(SubSeq(str, n1 + 6, n1 + 5 + ny))
           year == IF year0 < 100 THEN year0 + 2000 ELSE year0
       IN IF slashMatch
          THEN Num(DateUTC(digitsToNat(SubSeq(str, p3, p3 + 3)), first - 1,
                           digitsToNat(SubSeq(str, n1 + 2, n1 + 1 + n2))))
          ELSE IF dashMatch /\ month # {}
          THEN Num(DateUTC(year, (CHOOSE i \in month : TRUE) - 1, first))
          ELSE None

formatDate(date) ==
  LET c == CivilFromDays(date)
  IN padStart2(c.m) \o "/" \o padStart2(c.d) \o "/" \o ToString(c.y)

\* ------------------------------------------------------------------------
\* The row handler of getWindEventsForYear (the Event Filter & Normalizer)
\* ------------------------------------------------------------------------

WIND_EVENT_TYPES ==
  {"High Wind", "Thunderstorm Wind", "Marine Thunderstorm Wind", "Marine High Wind",
   "Strong Wind", "Tropical Storm", "Hurricane", "Hurricane (Typhoon)"}

\* a || b of two texts
OrElse(a, b) == IF a # "" THEN a ELSE b

\* the value of a number-or-null in a condition (null, NaN and 0 are falsy)
Truthy(x) == x # None /\ x[1] # 0

\* cutoff = new Date(); cutoff.setFullYear(cutoff.getFullYear() - 10), for the
\* instant now = [day, ms]: the same month, day and time of day ten years
\* earlier, the day overflowing into March when now is a 29 February
LookbackYears == 10

CutoffOf(t) ==
  LET c == CivilFromDays(t.day)
  IN [day |-> DateUTC(c.y - LookbackYears, c.m - 1, c.d), ms |-> t.ms]

\* beginDate < cutoff, beginDate being a UTC midnight
BeforeCutoff(date, cutoff) ==
  date < cutoff.day \/ (date = cutoff.day /\ 0 < cutoff.ms)

\* a county check without the comparison of the first tokens
countyMatchesWithoutFirstToken(recordCounty, normalizedTargetCounty) ==
  \/ recordCounty = normalizedTargetCounty
  \/ includes(recordCounty, normalizedTargetCounty)
  \/ includes(normalizedTargetCounty, recordCounty)

countyMatches(recordCounty, normalizedTargetCounty) ==
  \/ recordCounty = normalizedTargetCounty
  \/ includes(recordCounty, normalizedTargetCounty)
  \/ includes(normalizedTargetCounty, recordCounty)
  \/ splitFirst(recordCounty) = splitFirst(normalizedTargetCounty)

\* magnitude after the optional knots-to-mph conversion, in tenths
ConvertMagnitude(magnitude, magnitudeType) ==
  IF magnitude = NaN THEN NaN
  ELSE IF magnitudeType = "EG" \/ magnitudeType = "MG"
       THEN Num(10 * KnotsToMph(magnitude[1]))
       ELSE magnitude

\* if (!Number.isFinite(magnitude) || magnitude <= 0) continue;
MagnitudeRejected(magnitude) == ~isFinite(magnitude) \/ magnitude[1] <= 0

\* windSpeedMph: Math.round(magnitude)
WindSpeedOf(magnitude) == MathRound(magnitude[1])

\* One pass of the while loop of the "readable" handler: <<>> when the record
\* is skipped, else the one event pushed.  src is not a field of the program's
\* event: it records where the event came from (file year, row number).
HandleRecord(record, geo, cutoff, src) ==
  LET eventType == trim(record.EVENT_TYPE)
      normalizedTargetCounty == normalizeName(geo.county)
      normalizedTargetState == normalizeName(geo.state)
      recordState == normalizeName(record.STATE_)
      recordCounty == normalizeName(record.CZ_NAME)
      beginDate == parseNoaaDate(OrElse(record.BEGIN_DATE_TIME, record.BEGIN_DATE))
      magnitude == ConvertMagnitude(parseFloat(record.MAGNITUDE),
                                    toUpperCase(record.MAGNITUDE_TYPE))
      lat == parseFloat(record.BEGIN_LAT)
      lon == parseFloat(record.BEGIN_LON)
  IN IF eventType \notin WIND_EVENT_TYPES THEN <<>>
     ELSE IF normalizedTargetState # "" /\ recordState # normalizedTargetState THEN <<>>
     ELSE IF normalizedTargetCounty # ""
             /\ ~countyMatches(recordCounty, normalizedTargetCounty) THEN <<>>
     ELSE IF beginDate = None \/ BeforeCutoff(beginDate[1], cutoff) THEN <<>>
     ELSE IF MagnitudeRejected(magnitude) THEN <<>>
     ELSE << [date |-> beginDate[1],
              windSpeedMph |-> WindSpeedOf(magnitude),
              eventType |-> eventType,
              lat |-> IF isFinite(lat) THEN lat ELSE None,
              lon |-> IF isFinite(lon) THEN lon ELSE None,
              distanceMiles |-> None,
              src |-> src] >>

\* the events of a whole file: the handler over its rows, in row order
RECURSIVE ParseRows(_, _, _, _, _)
ParseRows(rows, geo, cutoff, year, k) ==
  IF rows = <<>> THEN <<>>
  ELSE HandleRecord(Head(rows), geo, cutoff, <<year, k>>)
       \o ParseRows(Tail(rows), geo, cutoff, year, k + 1)

\* ------------------------------------------------------------------------
\* The Aggregator's post-processing: sort, radius filter, dedup, shape
\* ------------------------------------------------------------------------

\* a comparator that would put the oldest event first
compareEventsAscending(a, b) == a.date - b.date

\* the comparator of allEvents.sort: b.date.getTime() - a.date.getTime()
compareEvents(a, b) == b.date - a.date

\* Array.prototype.sort is stable: an element goes behind every element that
\* the comparator does not put after it
RECURSIVE insertEvent(_, _)
insertEvent(sorted, e) ==
  IF sorted = <<>> THEN <<e>>
  ELSE IF compareEvents(Head(sorted), e) <= 0
       THEN <<Head(sorted)>> \o insertEvent(Tail(sorted), e)
       ELSE <<e>> \o sorted

RECURSIVE sortEvents(_)
sortEvents(events) ==
  IF events = <<>> THEN <<>>
  ELSE insertEvent(sortEvents(SubSeq(events, 1, Len(events) - 1)), events[Len(events)])

\* haversineDistance in thousandths of a mile, tabulated from the formula
\* (Earth radius 3958.8 miles) for coordinates in tenths of a degree
HaversineTable ==
  (<<400, -750, 400, -750>> :> 0)     @@ (<<400, -750, 400, -751>> :> 5293) @@
  (<<400, -750, 401, -750>> :> 6909)  @@ (<<400, -750, 401, -751>> :> 8701) @@
  (<<400, -750, 410, -750>> :> 69094) @@ (<<400, -750, 410, -751>> :> 69294) @@
  (<<400, -750, 0, -750>> :> 2763764)

haversineDistance(lat1, lon1, lat2, lon2) == HaversineTable[<<lat1, lon1, lat2, lon2>>]

\* the .map of the radius step: the distance is attached when both coordinates
\* are truthy
AttachDistance(e, geo) ==
  IF Truthy(e.lat) /\ Truthy(e.lon)
  THEN [e EXCEPT !.distanceMiles =
           Num(haversineDistance(geo.lat, geo.lon, e.lat[1], e.lon[1]))]
  ELSE e

\* the .filter of the radius step; radiusMiles is in tenths of a mile
WithinRadius(e, radiusMiles) ==
  IF ~Truthy(e.lat) \/ ~Truthy(e.lon) THEN FALSE
  ELSE e.distanceMiles[1] <= radiusMiles * 100

RECURSIVE filterWithinRadius(_, _)
filterWithinRadius(events, radiusMiles) ==
  IF events = <<>> THEN <<>>
  ELSE (IF WithinRadius(Head(events), radiusMiles) THEN <<Head(events)>> ELSE <<>>)
       \o filterWithinRadius(Tail(events), radiusMiles)

radiusStep(allEvents, geo, radiusMiles) ==
  IF radiusMiles > 0
  THEN filterWithinRadius(
         [i \in 1..Len(allEvents) |-> AttachDistance(allEvents[i], geo)], radiusMiles)
  ELSE allEvents

\* a key that would also tell event types apart
dedupKeyWithType(e) ==
  formatDate(e.date) \o "-" \o ToString(e.windSpeedMph) \o "-" \o e.eventType

\* `${formatDate(e.date)}-${e.windSpeedMph}`
dedupKey(e) == formatDate(e.date) \o "-" \o ToString(e.windSpeedMph)

\* filteredEvents.filter with the seen set
RECURSIVE dedupFrom(_, _)
dedupFrom(events, seen) ==
  IF events = <<>> THEN <<>>
  ELSE LET key == dedupKey(Head(events))
       IN IF key \in seen
          THEN dedupFrom(Tail(events), seen)
          ELSE <<Head(events)>> \o dedupFrom(Tail(events), seen \cup {key})

uniqueEvents(filteredEvents) == dedupFrom(filteredEvents, {})

\* distanceMiles of a result: Math.round(d * 10) / 10 in tenths of a mile, or null
ShapeDistance(d) == IF Truthy(d) THEN Num((2 * d[1] + 100) \div 200) ELSE None

shapeResult(event) ==
  [date |-> formatDate(event.date),
   windSpeedMph |-> event.windSpeedMph,
   eventType |-> event.eventType,
   distanceMiles |-> ShapeDistance(event.distanceMiles)]

\* everything between the year loop and res.json: the events kept, in order
PostProcess(allEvents, geo, radiusMiles) ==
  uniqueEvents(radiusStep(sortEvents(allEvents), geo, radiusMiles))

\* the body of the 200 response
ResponseBody(unique, geo, radiusMiles) ==
  [address |-> geo.displayName,
   county |-> geo.county,
   state |-> geo.state,
   radiusMiles |-> IF radiusMiles # 0 THEN Num(radiusMiles) ELSE None,
   results |-> [i \in 1..Len(unique) |-> shapeResult(unique[i])]]

\* ------------------------------------------------------------------------
\* The Dataset Directory Resolver
\* ------------------------------------------------------------------------

FilePrefix == "StormEvents_details-ftp_v1.0_d"
FileSuffix == ".csv.gz"

\* the name of the dataset file of a year and a creation date (texts of digits)
FileName(yyyy, created) == FilePrefix \o yyyy \o "_c" \o created \o FileSuffix

\* the match of /StormEvents_details-ftp_v1\.0_d(\d{4})_c(\d{8})\.csv\.gz/ that
\* starts at position i of html, as <<[filename, year, created]>>, or <<>>
MatchAt(html, i) ==
  LET p == Len(FilePrefix)
      whole == SubSeq(html, i, i + p + 20)
  IN IF /\ i + p + 20 <= Len(html)
        /\ Chr(html, i) = "S"
        /\ SubSeq(html, i, i + p - 1) = FilePrefix
        /\ digitRun(html, i + p) >= 4
        /\ SubSeq(html, i + p + 4, i + p + 5) = "_c"
        /\ digitRun(html, i + p + 6) >= 8
        /\ SubSeq(html, i + p + 14, i + p + 20) = FileSuffix
     THEN << [filename |-> whole,
              year |-> SubSeq(html, i + p, i + p + 3),
              created |-> SubSeq(html, i + p + 6, i + p + 13)] >>
     ELSE <<>>

\* regex.exec(html) from lastIndex lo: the position in lo..hi of the leftmost
\* match, or 0 when there is none (the range is halved to keep the search flat)
RECURSIVE execFrom(_, _, _)
execFrom(html, lo, hi) ==
  IF lo > hi THEN 0
  ELSE IF lo = hi THEN (IF MatchAt(html, lo) # <<>> THEN lo ELSE 0)
  ELSE LET mid == (lo + hi) \div 2
           left == execFrom(html, lo, mid)
       IN IF left # 0 THEN left ELSE execFrom(html, mid + 1, hi)

\* the while loop over regex.exec(html): the matches of the requested year, in
\* the order of the listing
RECURSIVE scanListing(_, _, _)
scanListing(html, i, year) ==
  LET at == execFrom(html, i, Len(html))
  IN IF at = 0 THEN <<>>
     ELSE LET m == MatchAt(html, at)
          IN (IF digitsToNat(m[1].year) = year THEN m ELSE <<>>)
             \o scanListing(html, at + Len(m[1].filename), year)

\* a.localeCompare(b) of two texts of digits: negative, zero or positive
RECURSIVE localeCompare(_, _)
localeCompare(a, b) ==
  IF Len(a) = 0 \/ Len(b) = 0 THEN Len(a) - Len(b)
  ELSE IF Chr(a, 1) # Chr(b, 1) THEN DigitVal(Chr(a, 1)) - DigitVal(Chr(b, 1))
  ELSE localeCompare(SubSeq(a, 2, Len(a)), SubSeq(b, 2, Len(b)))

\* a comparator that would put the oldest creation date first
compareMatchesOldestFirst(a, b) == localeCompare(a.created, b.created)

\* the comparator of matches.sort: b.created.localeCompare(a.created)
compareMatches(a, b) == localeCompare(b.created, a.created)

RECURSIVE insertMatch(_, _)
insertMatch(sorted, m) ==
  IF sorted = <<>> THEN <<m>>
  ELSE IF compareMatches(Head(sorted), m) <= 0
       THEN <<Head(sorted)>> \o insertMatch(Tail(sorted), m)
       ELSE <<m>> \o sorted

RECURSIVE sortMatches(_)
sortMatches(matches) ==
  IF matches = <<>> THEN <<>>
  ELSE insertMatch(sortMatches(SubSeq(matches, 1, Len(matches) - 1)),
                   matches[Len(matches)])

\* the filename returned for a listing that was fetched (or cached), or NULL
getLatestStormFilename(html, year) ==
  LET matches == scanListing(html, 1, year)
  IN IF Len(matches) = 0 THEN NULL ELSE sortMatches(matches)[1].filename

\* ------------------------------------------------------------------------
\* The server: state
\* ------------------------------------------------------------------------

VARIABLES
  now,             \* the clock Date.now() and new Date() read: [day, ms]
  ticks,           \* how often the clock has advanced
  faults,          \* how many fetches and downloads have failed so far
  answers,         \* how many listing fetches have been answered so far
  directoryCache,  \* the process-wide listing cache: [html, timestamp]
  cacheDirExists,  \* whether CACHE_DIR has been created
  files,           \* CACHE_DIR: filename -> [exists, chunks]
  downloaded,      \* history: the filenames a download has finished writing
  bodyFailed,      \* history: the filenames a download body has failed on
  req,             \* the requests: position in the handler and its locals
  rIn, rOut,       \* ResolverSpec: the listing and year given, the result
  aIn, aEvents, aRows, aOut, \* AggSpec: the request, events, rows fed, response
  aLast            \* AggSpec, history: the row fed last and whether it was pushed

vars == <<now, ticks, faults, answers, directoryCache, cacheDirExists, files, downloaded,
          bodyFailed, req, rIn, rOut, aIn, aEvents, aRows, aOut, aLast>>

serverVars == <<now, ticks, faults, answers, directoryCache, cacheDirExists, files, downloaded,
                bodyFailed, req>>
resolverVars == <<rIn, rOut>>
aggVars == <<aIn, aEvents, aRows, aOut, aLast>>

DIRECTORY_CACHE_TTL == 3600000
MsPerDay == 24 * 60 * 60 * 1000

\* bounds of the model
NumRequests == 2
MaxTicks == 1
MaxFaults == 1
MaxAnswers == 2
FileChunks == 2

Requests == 1..NumRequests

\* the instant the process starts at: 2026-11-05T00:00:00.000Z
StartNow == [day |-> DaysFromCivil(2026, 11, 5), ms |-> 0]
\* the steps the clock advances by, in ms: a cached listing is met at the age 0
\* (fresh) and at the age of the time-to-live (expired)
TickSteps == {DIRECTORY_CACHE_TTL}

\* now - directoryCache.timestamp, in ms
ElapsedMs(t, timestamp) == (t.day - timestamp.day) * MsPerDay + (t.ms - timestamp.ms)

\* directoryCache.html && now - directoryCache.timestamp < DIRECTORY_CACHE_TTL
\* (null and the empty text are falsy)
CacheFresh(cache, t) ==
  /\ cache.html # NULL
  /\ cache.html # ""
  /\ ElapsedMs(t, cache.timestamp) < DIRECTORY_CACHE_TTL

\* ------------------------------------------------------------------------
\* The remote services
\* ------------------------------------------------------------------------

\* the bodies the directory listing is served with
ListingA ==
  "<a>" \o FileName("2020", "20220101") \o "</a> " \o FileName("2023", "20240101")
  \o " " \o FileName("2020", "20230101")
RemoteListings == {"", ListingA}

\* the clock a step later
Advance(t, step) ==
  [day |-> t.day + (t.ms + step) \div MsPerDay, ms |-> (t.ms + step) % MsPerDay]

\* the files the listings name as the latest of a year
RemoteFiles == {FileName("2020", "20230101"), FileName("2023", "20240101")}

\* the year text of a dataset filename
FileYear(filename) == SubSeq(filename, Len(FilePrefix) + 1, Len(FilePrefix) + 4)

\* The rows of the k-th chunk of a dataset file: a thunderstorm gust of the
\* file's year in Suffolk, New York, and a tornado the allow-list rejects.
DatasetRows(filename, k) ==
  << [EVENT_TYPE |-> "Thunderstorm Wind", STATE_ |-> "NEW YORK", CZ_NAME |-> "SUFFOLK",
      CZ_TYPE |-> "C", BEGIN_DATE_TIME |-> padStart2(k) \o "/15/" \o FileYear(filename)
                                            \o " 14:45:00",
      BEGIN_DATE |-> "", MAGNITUDE |-> "50", MAGNITUDE_TYPE |-> "MG",
      BEGIN_LAT |-> "40.1", BEGIN_LON |-> "-75.0"],
     [EVENT_TYPE |-> "Tornado", STATE_ |-> "NEW YORK", CZ_NAME |-> "SUFFOLK",
      CZ_TYPE |-> "C", BEGIN_DATE_TIME |-> padStart2(k) \o "/16/" \o FileYear(filename),
      BEGIN_DATE |-> "", MAGNITUDE |-> "", MAGNITUDE_TYPE |-> "",
      BEGIN_LAT |-> "40.0", BEGIN_LON |-> "-75.1"] >>

\* the number of rows in the chunks before chunk k
RECURSIVE RowsBefore(_, _)
RowsBefore(filename, k) ==
  IF k <= 1 THEN 0
  ELSE RowsBefore(filename, k - 1) + Len(DatasetRows(filename, k - 1))

\* the rows of the whole file
RECURSIVE RowsUpTo(_, _)
RowsUpTo(filename, k) ==
  IF k = 0 THEN <<>> ELSE RowsUpTo(filename, k - 1) \o DatasetRows(filename, k)

\* the answers of the geocoder
SuffolkResult ==
  [display_name |-> "Suffolk County, New York, United States",
   lat |-> "40.0", lon |-> "-75.0",
   address |-> [county |-> "Suffolk County", state_district |-> "", region |-> "",
                city |-> "", state |-> "New York"]]

GeocoderResponses ==
  {[net |-> "reject", ok |-> FALSE, json |-> "invalid", items |-> <<>>],
   [net |-> "ok", ok |-> FALSE, json |-> "array", items |-> <<>>],
   [net |-> "ok", ok |-> TRUE, json |-> "invalid", items |-> <<>>],
   [net |-> "ok", ok |-> TRUE, json |-> "object", items |-> <<>>],
   [net |-> "ok", ok |-> TRUE, json |-> "array", items |-> <<>>],
   [net |-> "ok", ok |-> TRUE, json |-> "array", items |-> <<SuffolkResult>>]}

\* the query parameters a request may carry (NULL: the parameter is missing)
Addresses == {NULL, "", "  ", " 1 Main St, Riverhead, NY "}
RadiusTexts == {"10"}

\* ------------------------------------------------------------------------
\* geocodeAddress
\* ------------------------------------------------------------------------

NoGeo ==
  [displayName |-> "", lat |-> 0, lon |-> 0, county |-> NULL, state |-> NULL]

\* a || b || ... || null over texts
RECURSIVE FirstTruthy(_)
FirstTruthy(texts) ==
  IF texts = <<>> THEN NULL
  ELSE IF Head(texts) # "" THEN Head(texts) ELSE FirstTruthy(Tail(texts))

\* [outcome |-> "throw" | "null" | "geo", geo]
geocodeAddress(response) ==
  IF response.net = "reject" THEN [outcome |-> "throw", geo |-> NoGeo]
  ELSE IF ~response.ok THEN [outcome |-> "null", geo |-> NoGeo]
  ELSE IF response.json = "invalid" THEN [outcome |-> "throw", geo |-> NoGeo]
  ELSE IF response.json # "array" \/ Len(response.items) = 0
       THEN [outcome |-> "null", geo |-> NoGeo]
  ELSE LET result == response.items[1]
           details == result.address
           county == FirstTruthy(<<details.county, details.state_district,
                                   details.region, details.city>>)
           stripped ==
             trim(stripSuffixWord(stripSuffixWord(stripSuffixWord(stripSuffixWord(
               county, "county"), "parish"), "borough"), "census area"))
       IN [outcome |-> "geo",
           geo |-> [displayName |-> result.display_name,
                    lat |-> NumberOf(result.lat)[1],
                    lon |-> NumberOf(result.lon)[1],
                    county |-> IF county = NULL THEN NULL ELSE stripped,
                    state |-> FirstTruthy(<<details.state>>)]]

\* a radius that would not be clamped at 0: Number(req.query.radius) || 0
RadiusOfUnclamped(text) ==
  LET n == NumberOf(text)
  IN IF Truthy(n) THEN n[1] ELSE 0

\* Math.max(0, Number(req.query.radius) || 0), in tenths of a mile
RadiusOf(text) ==
  LET n == NumberOf(text)
      v == IF Truthy(n) THEN n[1] ELSE 0
  IN IF v > 0 THEN v ELSE 0

\* ------------------------------------------------------------------------
\* The handler of GET /api/windstorms, from one await to the next
\* ------------------------------------------------------------------------

ZeroTime == [day |-> 0, ms |-> 0]
NoBody == [error |-> ""]

\* A request before it arrives.  The fields from listed on are history:
\*   listed, fetched  the year, when it is the current one, for which a GET of
\*                    the listing, of a dataset file, has been issued;
\*   twice            the kinds of GET issued a second time in one year;
\*   failed           the resources (<<kind, name>>) whose GET has failed;
\*   retried          the kinds of GET issued for a resource in failed;
\*   okYears          <<year, filename>> of the years whose events were pushed;
\*   called           the years getWindEventsForYear was called for;
\*   calls            those years in the order of the calls;
\*   blank            whether the address parameter was missing or white space;
\*   lostRows         whether a throw has dropped rows already accepted.
IdleRequest ==
  [pc |-> "idle", address |-> "", radiusMiles |-> 0, geo |-> NoGeo,
   cutoff |-> ZeroTime, year |-> 0, endYear |-> 0, now |-> ZeroTime,
   filename |-> NULL, wpos |-> 0, rpos |-> 0, events |-> <<>>, allEvents |-> <<>>,
   status |-> 0, body |-> NoBody,
   listed |-> 0, fetched |-> 0, twice |-> {}, failed |-> {}, retried |-> {},
   okYears |-> {}, called |-> {}, lostRows |-> FALSE, calls |-> <<>>, blank |-> FALSE]

\* res.status(status).json(body): the handler returns
Finish(q, status, body) ==
  [q EXCEPT !.pc = "done", !.status = status, !.body = body, !.now = ZeroTime,
            !.filename = NULL, !.wpos = 0, !.rpos = 0, !.events = <<>>,
            !.listed = 0, !.fetched = 0, !.failed = {}]

\* a catch block that would keep the rows the failed call had accepted
EventsKeptAfterError(events) == events

\* what the catch block of the year loop adds to allEvents for the rows the
\* failed call had accepted: nothing, they lived in the call's own array
EventsAfterError(events) == <<>>

\* a loop that would try the failed year again
YearRetriedAfterError(year) == year

\* the year the loop goes on with after the catch block
YearAfterError(year) == year + 1

\* a cache check that would never find the file
existsSyncNever(fs, filename) == FALSE

\* fs.existsSync(filePath) in ensureFileDownloaded
existsSync(fs, filename) == fs[filename].exists

\* the sort, the radius step, the dedup and the 200 response
Respond200(q) ==
  Finish(q, 200, ResponseBody(PostProcess(q.allEvents, q.geo, q.radiusMiles),
                              q.geo, q.radiusMiles))

\* the history of a GET of the listing issued for the year q.year
ListingGet(q) ==
  [q EXCEPT !.listed = q.year,
            !.twice = IF q.listed = q.year THEN @ \cup {"listing"} ELSE @,
            !.retried = IF <<"listing", "">> \in q.failed THEN @ \cup {"listing"} ELSE @]

\* the history of a GET of the file name issued for the year q.year
FileGet(q, name) ==
  [q EXCEPT !.fetched = q.year,
            !.twice = IF q.fetched = q.year THEN @ \cup {"file"} ELSE @,
            !.retried = IF <<"file", name>> \in q.failed THEN @ \cup {"file"} ELSE @]

\* The year loop up to the next await of a fetch, a download or a file read, or
\* to the response.  RunYear is the head of the loop: getNoaaDirectoryHtml
\* answers from the cache or fetches.  WithListing is getWindEventsForYear once
\* the listing is there: getLatestStormFilename picks the file (no file: the
\* year returns [] and the loop goes on), ensureFileDownloaded finds it in
\* CACHE_DIR or fetches it.
RECURSIVE RunYear(_, _, _, _)
RECURSIVE WithListing(_, _, _, _, _)
RunYear(q, cache, fs, t) ==
  IF q.year > q.endYear THEN Respond200(q)
  ELSE LET q1 == [q EXCEPT !.called = @ \cup {q.year},
                           !.calls = Append(@, q.year),
                           !.listed = IF @ = q.year THEN @ ELSE 0,
                           !.fetched = IF @ = q.year THEN @ ELSE 0]
       IN IF CacheFresh(cache, t)
          THEN WithListing(q1, cache.html, cache, fs, t)
          ELSE [ListingGet(q1) EXCEPT !.pc = "listing", !.now = t]

WithListing(q, html, cache, fs, t) ==
  LET filename == getLatestStormFilename(html, q.year)
  IN IF filename = NULL
     THEN RunYear([q EXCEPT !.year = @ + 1, !.now = ZeroTime], cache, fs, t)
     ELSE IF existsSync(fs, filename)
     THEN [q EXCEPT !.pc = "reading", !.filename = filename, !.now = ZeroTime,
                    !.rpos = 0, !.events = <<>>]
     ELSE [FileGet(q, filename) EXCEPT !.pc = "downloading", !.filename = filename,
                                       !.now = ZeroTime]

\* getWindEventsForYear threw: the catch block, then the next year
YearFailed(q, what, cache, fs, t) ==
  RunYear([q EXCEPT !.allEvents = @ \o EventsAfterError(q.events),
                    !.failed = @ \cup what,
                    !.lostRows = @ \/ q.events # <<>>,
                    !.events = <<>>, !.filename = NULL, !.wpos = 0, !.rpos = 0,
                    !.year = YearAfterError(q.year)],
          cache, fs, t)

\* getWindEventsForYear returned its events: allEvents.push(...events), next year
YearDone(q, cache, fs, t) ==
  RunYear([q EXCEPT !.allEvents = @ \o q.events,
                    !.okYears = @ \cup {<<q.year, q.filename>>},
                    !.events = <<>>, !.filename = NULL, !.wpos = 0, !.rpos = 0,
                    !.year = @ + 1],
          cache, fs, t)

\* the request r moves to nq; CACHE_DIR is created by ensureFileDownloaded
Moves(r, nq) ==
  /\ req' = [req EXCEPT ![r] = nq]
  /\ cacheDirExists' = (cacheDirExists \/ nq.pc \in {"reading", "downloading"})

\* an address that would not be trimmed: String(req.query.address || "")
AddressUntrimmed(text) == IF text = NULL THEN "" ELSE text

\* String(req.query.address || "").trim()
AddressOf(text) == trim(IF text = NULL THEN "" ELSE text)

\* the parameter is missing, empty or white space only
IsBlank(text) == text = NULL \/ \A i \in 1..Len(text) : IsSpace(Chr(text, i))

\* A request arrives: the address check, then the geocoder is asked.  The
\* requests being alike, they arrive in the order of their numbers.
Arrive(r, address, radius) ==
  /\ req[r].pc = "idle"
  /\ \A o \in Requests : o < r => req[o].pc # "idle"
  /\ LET a == AddressOf(address)
         q == [req[r] EXCEPT !.blank = IsBlank(address)]
     IN Moves(r, IF a = ""
                 THEN Finish(q, 400, [error |-> "Address is required."])
                 ELSE [q EXCEPT !.pc = "geocoding", !.address = a,
                                !.radiusMiles = RadiusOf(radius)])
  /\ UNCHANGED <<now, ticks, faults, answers, directoryCache, files, downloaded, bodyFailed>>
  /\ UNCHANGED <<resolverVars, aggVars>>

\* The geocoder answers: 404, 500, or the cutoff and the year loop.
GeocodeResponse(r, response) ==
  /\ req[r].pc = "geocoding"
  /\ LET g == geocodeAddress(response)
         cutoff == CutoffOf(now)
     IN Moves(r,
          IF g.outcome = "throw"
          THEN Finish(req[r], 500, [error |-> "Server error. Please try again."])
          ELSE IF g.outcome = "null"
          THEN Finish(req[r], 404,
                 [error |-> "Could not find that address. Try including city and state."])
          ELSE RunYear([req[r] EXCEPT !.geo = g.geo, !.cutoff = cutoff,
                                      !.year = getUTCFullYear(cutoff.day),
                                      !.endYear = getUTCFullYear(now.day)],
                       directoryCache, files, now))
  /\ UNCHANGED <<now, ticks, faults, answers, directoryCache, files, downloaded, bodyFailed>>
  /\ UNCHANGED <<resolverVars, aggVars>>

\* The listing fetch fails (a non-success status, or the body cannot be read).
ListingFails(r) ==
  /\ req[r].pc = "listing"
  /\ faults < MaxFaults
  /\ faults' = faults + 1
  /\ Moves(r, YearFailed(req[r], {<<"listing", "">>}, directoryCache, files, now))
  /\ UNCHANGED <<now, ticks, answers, directoryCache, files, downloaded, bodyFailed>>
  /\ UNCHANGED <<resolverVars, aggVars>>

\* The listing arrives: it is cached under the time the call started at, and
\* getWindEventsForYear goes on with it.
ListingArrives(r, html) ==
  /\ req[r].pc = "listing"
  /\ answers < MaxAnswers
  /\ answers' = answers + 1
  /\ LET cache == [html |-> html, timestamp |-> req[r].now]
     IN /\ directoryCache' = cache
        /\ Moves(r, WithListing(req[r], html, cache, files, now))
  /\ UNCHANGED <<now, ticks, faults, files, downloaded, bodyFailed>>
  /\ UNCHANGED <<resolverVars, aggVars>>

\* The download is refused (a non-success status).
DownloadRefused(r) ==
  /\ req[r].pc = "downloading"
  /\ faults < MaxFaults
  /\ faults' = faults + 1
  /\ Moves(r, YearFailed(req[r], {<<"file", req[r].filename>>},
                         directoryCache, files, now))
  /\ UNCHANGED <<now, ticks, answers, directoryCache, files, downloaded, bodyFailed>>
  /\ UNCHANGED <<resolverVars, aggVars>>

\* The download is answered: pipeline(response.body, fs.createWriteStream(filePath)).
DownloadAnswered(r) ==
  /\ req[r].pc = "downloading"
  /\ Moves(r, [req[r] EXCEPT !.pc = "opening", !.wpos = 0])
  /\ UNCHANGED <<now, ticks, faults, answers, directoryCache, files, downloaded, bodyFailed>>
  /\ UNCHANGED <<resolverVars, aggVars>>

\* The write stream opens the file: it is created, or truncated when it exists.
FileOpen(r) ==
  /\ req[r].pc = "opening"
  /\ files' = [files EXCEPT ![req[r].filename] = [exists |-> TRUE, chunks |-> {}]]
  /\ Moves(r, [req[r] EXCEPT !.pc = "writing"])
  /\ UNCHANGED <<now, ticks, faults, answers, directoryCache, downloaded, bodyFailed>>
  /\ UNCHANGED <<resolverVars, aggVars>>

\* One chunk of the body is written at the stream's own position.
WriteChunk(r) ==
  /\ req[r].pc = "writing"
  /\ req[r].wpos < FileChunks
  /\ files' = [files EXCEPT ![req[r].filename].chunks = @ \cup {req[r].wpos + 1}]
  /\ Moves(r, [req[r] EXCEPT !.wpos = @ + 1])
  /\ UNCHANGED <<now, ticks, faults, answers, directoryCache, downloaded, bodyFailed>>
  /\ UNCHANGED <<resolverVars, aggVars>>

\* The body ends and the write stream finishes: ensureFileDownloaded returns,
\* getWindEventsForYear starts the read pipeline.
WriteFinish(r) ==
  /\ req[r].pc = "writing"
  /\ req[r].wpos = FileChunks
  /\ downloaded' = downloaded \cup {req[r].filename}
  /\ Moves(r, [req[r] EXCEPT !.pc = "reading", !.wpos = 0, !.rpos = 0,
                             !.events = <<>>])
  /\ UNCHANGED <<now, ticks, faults, answers, directoryCache, files, bodyFailed>>
  /\ UNCHANGED <<resolverVars, aggVars>>

\* The body stream fails part-way: pipeline rejects, the file stays as written.
WriteFails(r) ==
  /\ req[r].pc = "writing"
  /\ req[r].wpos < FileChunks
  /\ faults < MaxFaults
  /\ faults' = faults + 1
  /\ bodyFailed' = bodyFailed \cup {req[r].filename}
  /\ Moves(r, YearFailed(req[r], {<<"file", req[r].filename>>},
                         directoryCache, files, now))
  /\ UNCHANGED <<now, ticks, answers, directoryCache, files, downloaded>>
  /\ UNCHANGED <<resolverVars, aggVars>>

\* The read pipeline delivers the next chunk of the cached file to the parser,
\* whose handler pushes the accepted rows; after the last chunk the events are
\* returned.  A chunk that is not there (the file ends early, or holds a gap
\* left by a truncation) fails the gunzip stream: getWindEventsForYear throws.
ReadChunk(r) ==
  /\ req[r].pc = "reading"
  /\ LET q == req[r]
         k == q.rpos + 1
         accepted == ParseRows(DatasetRows(q.filename, k), q.geo, q.cutoff, q.year,
                              RowsBefore(q.filename, k) + 1)
         q1 == [q EXCEPT !.rpos = k, !.events = @ \o accepted]
     IN Moves(r, IF k \notin files[q.filename].chunks
                 THEN YearFailed(q, {}, directoryCache, files, now)
                 ELSE IF k < FileChunks THEN q1
                 ELSE YearDone(q1, directoryCache, files, now))
  /\ UNCHANGED <<now, ticks, faults, answers, directoryCache, files, downloaded, bodyFailed>>
  /\ UNCHANGED <<resolverVars, aggVars>>

\* Time passes.
Tick(step) ==
  /\ ticks < MaxTicks
  /\ ticks' = ticks + 1
  /\ now' = Advance(now, step)
  /\ UNCHANGED <<faults, answers, directoryCache, cacheDirExists, files, downloaded, bodyFailed,
                 req>>
  /\ UNCHANGED <<resolverVars, aggVars>>


ServerInit ==
  /\ now = StartNow
  /\ ticks = 0
  /\ faults = 0
  /\ answers = 0
  /\ directoryCache = [html |-> NULL, timestamp |-> ZeroTime]
  /\ cacheDirExists = FALSE
  /\ files = [f \in RemoteFiles |-> [exists |-> FALSE, chunks |-> {}]]
  /\ downloaded = {}
  /\ bodyFailed = {}
  /\ req = [r \in Requests |-> IdleRequest]

ResolverIdle == rIn = <<>> /\ rOut = <<>>
AggIdle == aIn = <<>> /\ aEvents = <<>> /\ aRows = 0 /\ aOut = <<>> /\ aLast = <<>>

Init == ServerInit /\ ResolverIdle /\ AggIdle

Next ==
  \/ \E r \in Requests, a \in Addresses, t \in RadiusTexts : Arrive(r, a, t)
  \/ \E r \in Requests, g \in GeocoderResponses : GeocodeResponse(r, g)
  \/ \E r \in Requests : ListingFails(r)
  \/ \E r \in Requests, h \in RemoteListings : ListingArrives(r, h)
  \/ \E r \in Requests : DownloadRefused(r)
  \/ \E r \in Requests : DownloadAnswered(r)
  \/ \E r \in Requests : FileOpen(r)
  \/ \E r \in Requests : WriteChunk(r)
  \/ \E r \in Requests : WriteFinish(r)
  \/ \E r \in Requests : WriteFails(r)
  \/ \E r \in Requests : ReadChunk(r)
  \/ \E step \in TickSteps : Tick(step)

Spec == Init /\ [][Next]_vars

\* ------------------------------------------------------------------------
\* ResolverSpec: getLatestStormFilename over bounded listings
\* ------------------------------------------------------------------------

MaxListingItems == 3

\* The items a listing is made of.  token is the dataset filename the item
\* holds (NULL: none), year and created are the numbers embedded in it.
ListingItems ==
  {[text |-> FileName("2020", "20230101"),
    token |-> FileName("2020", "20230101"), year |-> 2020, created |-> 20230101],
   [text |-> "<a href=" \o FileName("2020", "20240615") \o ">",
    token |-> FileName("2020", "20240615"), year |-> 2020, created |-> 20240615],
   [text |-> FileName("2021", "20220101") \o "</a>",
    token |-> FileName("2021", "20220101"), year |-> 2021, created |-> 20220101],
   [text |-> FilePrefix \o "2020_c2025010" \o FileSuffix,
    token |-> NULL, year |-> 0, created |-> 0],
   [text |-> "StormEvents_locations-ftp_v1.0_d2020_c20250101.csv.gz",
    token |-> NULL, year |-> 0, created |-> 0]}

ResolverYears == {2020, 2021, 2022}

\* the text of a listing: its items, one per line
RECURSIVE ListingText(_)
ListingText(items) ==
  IF items = <<>> THEN ""
  ELSE Head(items).text \o " " \o ListingText(Tail(items))

\* the listing grows by one item
ListItem(item) ==
  /\ rOut = <<>>
  /\ Len(rIn) < MaxListingItems
  /\ rIn' = Append(rIn, item)
  /\ UNCHANGED <<rOut, serverVars, aggVars>>

\* getLatestStormFilename(year) over the listing
Resolve(year) ==
  /\ rOut = <<>>
  /\ rOut' = << [year |-> year,
                 filename |-> getLatestStormFilename(ListingText(rIn), year)] >>
  /\ UNCHANGED <<rIn, serverVars, aggVars>>

ResolverNext ==
  \/ \E item \in ListingItems : ListItem(item)
  \/ \E year \in ResolverYears : Resolve(year)

ResolverSpec == Init /\ [][ResolverNext]_vars

\* ------------------------------------------------------------------------
\* AggSpec: the row handler and the post-processing over bounded rows
\* ------------------------------------------------------------------------

MaxRows == 3

\* a geocoder result without any county, district, region or city
StateOnlyResult ==
  [display_name |-> "New York, United States",
   lat |-> "40.0", lon |-> "-75.0",
   address |-> [county |-> "", state_district |-> "", region |-> "",
                city |-> "", state |-> "New York"]]

OkResponse(result) ==
  [net |-> "ok", ok |-> TRUE, json |-> "array", items |-> <<result>>]

AggGeos ==
  {geocodeAddress(OkResponse(SuffolkResult)).geo,
   geocodeAddress(OkResponse(StateOnlyResult)).geo}

AggRadiusTexts == {NULL, "10", "abc"}
\* further radius texts, tried with the first target only: zero, a negative
\* number, and a radius that reaches the equator
MoreRadiusTexts == {"0", "-5", "3000"}

\* a thunderstorm gust of 50 knots in Suffolk, New York, 6.9 miles from the target
GustRow ==
  [EVENT_TYPE |-> "Thunderstorm Wind", STATE_ |-> "NEW YORK", CZ_NAME |-> "SUFFOLK",
   CZ_TYPE |-> "C", BEGIN_DATE_TIME |-> "07/04/2020 14:45:00", BEGIN_DATE |-> "",
   MAGNITUDE |-> "50", MAGNITUDE_TYPE |-> "MG",
   BEGIN_LAT |-> "40.1", BEGIN_LON |-> "-75.0"]

\* the rows a dataset may hold
AggRows ==
  {GustRow,
   \* the same day, another speed, 8.7 miles away
   [GustRow EXCEPT !.EVENT_TYPE = "High Wind", !.MAGNITUDE = "60",
                   !.MAGNITUDE_TYPE = "", !.BEGIN_LON = "-75.1"],
   \* the same day and speed as the gust, another type, no coordinates
   [GustRow EXCEPT !.EVENT_TYPE = "Marine Thunderstorm Wind", !.MAGNITUDE_TYPE = "EG",
                   !.BEGIN_LAT = "", !.BEGIN_LON = ""],
   \* a later day, a magnitude below one, at the target itself
   [GustRow EXCEPT !.EVENT_TYPE = "Strong Wind", !.BEGIN_DATE_TIME = "",
                   !.BEGIN_DATE = "08/01/2021", !.MAGNITUDE = "0.3",
                   !.MAGNITUDE_TYPE = "", !.BEGIN_LAT = "40.0"],
   \* a later day, 69.1 miles away
   [GustRow EXCEPT !.EVENT_TYPE = "High Wind", !.BEGIN_DATE_TIME = "09/09/2022",
                   !.MAGNITUDE = "45", !.MAGNITUDE_TYPE = "", !.BEGIN_LAT = "41.0"],
   \* not a wind event
   [GustRow EXCEPT !.EVENT_TYPE = "Tornado"],
   \* before the cutoff
   [GustRow EXCEPT !.BEGIN_DATE_TIME = "01/01/2010 00:00:00"],
   \* another county
   [GustRow EXCEPT !.CZ_NAME = "NASSAU", !.BEGIN_DATE_TIME = "10/10/2023 01:00:00"],
   \* no magnitude
   [GustRow EXCEPT !.MAGNITUDE = ""],
   \* a later day, on the equator: latitude 0, 2763.8 miles away
   [GustRow EXCEPT !.BEGIN_DATE_TIME = "05/05/2024 10:00:00", !.MAGNITUDE = "52",
                   !.BEGIN_LAT = "0"],
   \* a later day, at the target itself
   [GustRow EXCEPT !.BEGIN_DATE_TIME = "06/06/2024 10:00:00", !.MAGNITUDE = "40",
                   !.BEGIN_LAT = "40.0"]}

AggInput(g, t) ==
  [geo |-> g, radius |-> t, radiusMiles |-> RadiusOf(t), cutoff |-> CutoffOf(StartNow)]

AggInputs ==
  {AggInput(g, t) : g \in AggGeos, t \in AggRadiusTexts}
  \cup {AggInput(geocodeAddress(OkResponse(SuffolkResult)).geo, t) : t \in MoreRadiusTexts}

AggInit ==
  /\ ServerInit
  /\ ResolverIdle
  /\ aIn \in AggInputs
  /\ aEvents = <<>>
  /\ aRows = 0
  /\ aOut = <<>>
  /\ aLast = <<>>

\* the parser hands the next row to the handler, which pushes it or skips it
FeedRow(row) ==
  /\ aOut = <<>>
  /\ aRows < MaxRows
  /\ aRows' = aRows + 1
  /\ LET pushed == HandleRecord(row, aIn.geo, aIn.cutoff, <<0, aRows + 1>>)
     IN /\ aEvents' = aEvents \o pushed
        /\ aLast' = << [row |-> row, pushed |-> pushed # <<>>] >>
  /\ UNCHANGED <<aIn, aOut, serverVars, resolverVars>>

\* the year loop is over: sort, radius step, dedup, response.  Beside the body
\* the events after each step are kept.
Respond ==
  /\ aOut = <<>>
  /\ LET sorted == sortEvents(aEvents)
         filtered == radiusStep(sorted, aIn.geo, aIn.radiusMiles)
         unique == uniqueEvents(filtered)
     IN aOut' = << [sorted |-> sorted, filtered |-> filtered, unique |-> unique,
                    body |-> ResponseBody(unique, aIn.geo, aIn.radiusMiles)] >>
  /\ UNCHANGED <<aIn, aEvents, aRows, aLast, serverVars, resolverVars>>

AggNext ==
  \/ \E row \in AggRows : FeedRow(row)
  \/ Respond

AggSpec == AggInit /\ [][AggNext]_vars

\* ------------------------------------------------------------------------
\* CountySpec: the county check of the row handler
\* ------------------------------------------------------------------------

\* a geocoder result whose county has two words
StLawrenceResult ==
  [display_name |-> "Canton, St. Lawrence County, New York, United States",
   lat |-> "40.0", lon |-> "-75.0",
   address |-> [county |-> "St. Lawrence County", state_district |-> "", region |-> "",
                city |-> "Canton", state |-> "New York"]]

\* targets named Suffolk and St. Lawrence, and a target without a county
CountyGeos ==
  {geocodeAddress(OkResponse(SuffolkResult)).geo,
   geocodeAddress(OkResponse(StLawrenceResult)).geo,
   geocodeAddress(OkResponse(StateOnlyResult)).geo}

\* the county and zone names of the rows
CountyNames ==
  {"SUFFOLK", "Suffolk County", "Suffolk Co", "EASTERN SUFFOLK", "SUFF", "NASSAU",
   "ST. LOUIS", ""}

\* rows that pass every other check of the handler
CountyRows == {[GustRow EXCEPT !.CZ_NAME = name] : name \in CountyNames}

CountyInit ==
  /\ ServerInit
  /\ ResolverIdle
  /\ aIn \in {AggInput(g, NULL) : g \in CountyGeos}
  /\ aEvents = <<>>
  /\ aRows = 0
  /\ aOut = <<>>
  /\ aLast = <<>>

CountyNext ==
  \/ \E row \in CountyRows : FeedRow(row)
  \/ Respond

CountySpec == CountyInit /\ [][CountyNext]_vars

\* ------------------------------------------------------------------------
\* Properties of the server (Spec)
\* ------------------------------------------------------------------------

\* the year the scan of a request starts at
StartYear(q) == getUTCFullYear(q.cutoff.day)

\* the events of the whole files of the years year..endYear whose call has
\* returned, in ascending year and row order
RECURSIVE EventsOfYears(_, _, _)
EventsOfYears(q, year, endYear) ==
  IF year > endYear THEN <<>>
  ELSE LET ok == {p \in q.okYears : p[1] = year}
       IN (IF ok = {} THEN <<>>
           ELSE ParseRows(RowsUpTo((CHOOSE p \in ok : TRUE)[2], FileChunks),
                          q.geo, q.cutoff, year, 1))
          \o EventsOfYears(q, year + 1, endYear)

\* C1: when a request that has found its target returns, it returns 200; it
\* has called getWindEventsForYear for every year from the cutoff's year to the
\* current one; its accumulated events are exactly the events of the years
\* whose call returned, so that a year that failed, even after rows of it
\* were accepted, contributes nothing; and the body is built from them.
C1_FailedYearContributesNothing ==
  [][\A r \in Requests :
       LET q == req'[r]
       IN (req[r].pc # "done" /\ q.pc = "done" /\ q.geo # NoGeo)
          => /\ q.status = 200
             /\ q.called = StartYear(q) .. q.endYear
             /\ q.allEvents = EventsOfYears(q, StartYear(q), q.endYear)
             /\ q.body = ResponseBody(PostProcess(q.allEvents, q.geo, q.radiusMiles),
                                      q.geo, q.radiusMiles)]_vars

\* a request has answered 200 with events although a year failed after rows
\* of it had been accepted
C1_Witness ==
  \E r \in Requests :
    /\ req[r].pc = "done"
    /\ req[r].status = 200
    /\ req[r].lostRows
    /\ req[r].allEvents # <<>>

\* C2: within one request no GET of the listing follows a failed listing
\* fetch and no GET of a filename follows a failed download of that filename.
C2_NothingFetchedAgain ==
  \A r \in Requests : req[r].retried = {}

\* C3: when no download body has failed, a request reads a cached file only
\* after some download of it has finished, and the file it reads is whole.
C3_ReadsOnlyFinishedFiles ==
  bodyFailed = {} =>
    \A r \in Requests :
      req[r].pc = "reading" =>
        /\ req[r].filename \in downloaded
        /\ files[req[r].filename].chunks = 1..FileChunks

\* the filenames a call of ensureFileDownloaded is writing or about to write
BeingWritten ==
  {req[r].filename : r \in {w \in Requests : req[w].pc \in {"opening", "writing"}}}

\* C4: a file that is in the cache directory while no download of it is under
\* way is a complete copy: a failed download leaves no file behind.
C4_NoPartialFileLeft ==
  \A f \in RemoteFiles :
    (files[f].exists /\ f \notin BeingWritten) => files[f].chunks = 1..FileChunks

\* the request r issues a GET of the listing in this step
ListingGetIssued(r) == req'[r].pc = "listing" /\ req'[r] # req[r]

\* C5: a call of getNoaaDirectoryHtml made less than DIRECTORY_CACHE_TTL after
\* the timestamp of a cached fetch issues no GET.
C5_FreshCacheIssuesNoGet ==
  [][\A r \in Requests :
       (/\ directoryCache'.html # NULL
        /\ ElapsedMs(now, directoryCache'.timestamp) < DIRECTORY_CACHE_TTL)
       => ~ListingGetIssued(r)]_vars

\* the request r issues a GET of a dataset file in this step
FileGetIssued(r) == req'[r].pc = "downloading" /\ req'[r] # req[r]

\* the request r finds its file in the cache directory in this step
CacheHit(r) ==
  /\ req'[r].pc = "reading"
  /\ req'[r].rpos = 0
  /\ req[r].pc # "writing"
  /\ req'[r] # req[r]

\* C7: a call of ensureFileDownloaded that finds the file issues no GET and
\* leaves the cache directory as it is; a GET of a file is issued only while
\* the file is not there, hence never after a download of it has finished.
C7_CacheHitDownloadsNothing ==
  [][\A r \in Requests :
       /\ CacheHit(r) => /\ files[req'[r].filename].exists
                         /\ files' = files
                         /\ req'[r].fetched # req'[r].year
       /\ FileGetIssued(r) => /\ ~files[req'[r].filename].exists
                              /\ req'[r].filename \notin downloaded]_vars

\* a request reads a file that an earlier download has finished, without
\* having issued a GET for it
C7_Witness ==
  \E r \in Requests :
    /\ req[r].pc = "reading"
    /\ req[r].fetched # req[r].year
    /\ req[r].filename \in downloaded

\* C14: a request whose address parameter is missing, empty or white space
\* only is answered 400 in the step it arrives in, with no call of the
\* geocoder, no year started and the listing cache and the file cache left as
\* they were; it does nothing afterwards.
C14_BlankAddressIs400 ==
  [][\A r \in Requests :
       /\ (req[r].pc = "idle" /\ req'[r].pc # "idle" /\ req'[r].blank)
          => /\ req'[r].pc = "done"
             /\ req'[r].status = 400
             /\ req'[r].calls = <<>>
             /\ req'[r].geo = NoGeo
             /\ directoryCache' = directoryCache
             /\ files' = files
             /\ cacheDirExists' = cacheDirExists
             /\ downloaded' = downloaded
       /\ (req[r].blank /\ req[r].pc = "done") => req'[r] = req[r]]_vars

\* a request without address has been answered 400 after another request
\* had filled the listing cache
C14_Witness ==
  \E r \in Requests :
    /\ req[r].blank
    /\ req[r].pc = "done"
    /\ req[r].status = 400
    /\ directoryCache.html = ListingA

\* C15: a request with an address for which the geocoder gave no target,
\* whether by no match or by any failure, is answered 404 and has started no
\* year of the scan.
C15_GeocoderFailureIs404 ==
  \A r \in Requests :
    (req[r].pc = "done" /\ ~req[r].blank /\ req[r].geo = NoGeo)
    => (req[r].status = 404 /\ req[r].calls = <<>>)

\* the years first..last in ascending order
YearsFrom(first, last) == [i \in 1..(last - first + 1) |-> first + i - 1]

\* the positions of the handler inside the chain of a year
InChain == {"listing", "downloading", "opening", "writing", "reading"}

\* C17: the calls of getWindEventsForYear of a request are made for the years
\* from the cutoff's year on, ascending, each once; the chain that is under
\* way is that of the year called last, so that a year is started only when
\* the year before has returned or failed; and the 200 response, with its
\* sort, radius step and dedup, is made only when every year up to the
\* current one has been called and has finished.
C17_YearsInOrderOneAtATime ==
  [][\A r \in Requests :
       LET q == req[r]
           n == req'[r]
           thisYear == CivilFromDays(now.day).y
       IN /\ Len(n.calls) >= Len(q.calls)
          /\ SubSeq(n.calls, 1, Len(q.calls)) = q.calls
          /\ n.calls = YearsFrom(thisYear - LookbackYears,
                                 thisYear - LookbackYears + Len(n.calls) - 1)
          /\ n.pc \in InChain => (n.calls # <<>> /\ n.year = n.calls[Len(n.calls)])
          /\ Len(n.calls) > Len(q.calls) => q.pc \in InChain \cup {"geocoding"}
          /\ (n.pc = "done" /\ n.status = 200)
             => n.calls = YearsFrom(thisYear - LookbackYears, thisYear)]_vars

\* a request has answered 200 after eleven years of which one gave events
\* and one failed after rows had been accepted
C17_Witness ==
  \E r \in Requests :
    /\ req[r].pc = "done"
    /\ req[r].status = 200
    /\ Len(req[r].calls) = LookbackYears + 1
    /\ req[r].okYears # {}
    /\ req[r].lostRows

\* the instant a is earlier than the instant b
EarlierThan(a, b) == a.day < b.day \/ (a.day = b.day /\ a.ms < b.ms)

\* C18: the timestamp of directoryCache never decreases, so that a listing
\* fetched by a later call is never replaced by the listing of an earlier
\* call (stated for listings that are not empty); a listing fetch that fails
\* leaves directoryCache as it is.
C18_CacheNeverGoesBackwards ==
  [][/\ (directoryCache.html # "" /\ directoryCache'.html # "")
        => ~EarlierThan(directoryCache'.timestamp, directoryCache.timestamp)
     /\ faults' # faults => directoryCache' = directoryCache]_vars

\* ------------------------------------------------------------------------
\* Properties of the resolver (ResolverSpec)
\* ------------------------------------------------------------------------

\* the items of the listing that hold a filename of the year
TokensOf(items, year) ==
  {items[i] : i \in {j \in 1..Len(items) :
                       items[j].token # NULL /\ items[j].year = year}}

\* C6: the result is null exactly when the listing holds no filename of the
\* requested year; otherwise it is the filename of that year with the greatest
\* creation date, wherever it stands in the listing.
C6_LatestOfTheYear ==
  rOut # <<>> =>
    LET tokens == TokensOf(rIn, rOut[1].year)
    IN /\ (rOut[1].filename = NULL) <=> (tokens = {})
       /\ tokens # {} =>
            \E t \in tokens :
              /\ \A o \in tokens : o.created <= t.created
              /\ rOut[1].filename = t.token

\* the listing holds two filenames of the requested year, the newer one first
C6_Witness ==
  /\ rOut # <<>>
  /\ \E i, j \in 1..Len(rIn) :
       /\ i < j
       /\ rIn[i].token # NULL /\ rIn[j].token # NULL
       /\ rIn[i].year = rOut[1].year /\ rIn[j].year = rOut[1].year
       /\ rIn[i].created > rIn[j].created
       /\ rOut[1].filename = rIn[i].token

\* ------------------------------------------------------------------------
\* Properties of the row handler and the post-processing (AggSpec)
\* ------------------------------------------------------------------------

\* C8: for a target with a known state and county every event of the result
\* is not earlier than the cutoff, of an allowed type and of a speed above 0.
C8_ResultEventsValid ==
  (aOut # <<>> /\ aIn.geo.county # NULL /\ aIn.geo.state # NULL) =>
    \A i \in 1..Len(aOut[1].unique) :
      /\ ~BeforeCutoff(aOut[1].unique[i].date, aIn.cutoff)
      /\ aOut[1].body.results[i].eventType \in WIND_EVENT_TYPES
      /\ aOut[1].body.results[i].windSpeedMph > 0

\* newest first, and of two events of one date the one accumulated first
DescendingAndStable(events) ==
  \A i, j \in 1..Len(events) :
    i < j => \/ events[i].date > events[j].date
             \/ (events[i].date = events[j].date /\ events[i].src[2] < events[j].src[2])

\* C9: after the sort, after the radius step and after the dedup the events
\* are in descending date order, events of one date in the order they were
\* accumulated in; the response lists the events left in that order.
C9_DescendingStableOrder ==
  aOut # <<>> =>
    /\ DescendingAndStable(aOut[1].sorted)
    /\ DescendingAndStable(aOut[1].filtered)
    /\ DescendingAndStable(aOut[1].unique)
    /\ Len(aOut[1].body.results) = Len(aOut[1].unique)
    /\ \A i \in 1..Len(aOut[1].unique) :
         aOut[1].body.results[i].date = formatDate(aOut[1].unique[i].date)

\* the response holds two events of one date, and the sort had to move an
\* event in front of one accumulated before it
C9_Witness ==
  /\ aOut # <<>>
  /\ \E i, j \in 1..Len(aOut[1].unique) :
       i < j /\ aOut[1].unique[i].date = aOut[1].unique[j].date
  /\ \E i, j \in 1..Len(aEvents) : i < j /\ aEvents[i].date < aEvents[j].date

\* the (formatted date, windSpeedMph) pair of an event
DatePair(e) == <<formatDate(e.date), e.windSpeedMph>>

\* the positions of the events that are the first of their pair
FirstOfPair(events) ==
  {i \in 1..Len(events) : \A j \in 1..(i - 1) : DatePair(events[j]) # DatePair(events[i])}

\* the events at the given positions, in order
RECURSIVE EventsAt(_, _, _)
EventsAt(events, positions, i) ==
  IF i > Len(events) THEN <<>>
  ELSE (IF i \in positions THEN <<events[i]>> ELSE <<>>)
       \o EventsAt(events, positions, i + 1)

\* C10: no two records of the response share date and speed; of the events
\* that enter the dedup step exactly the first of each pair is kept; the step
\* applied to its own output changes nothing.
C10_FirstOfEachPairKept ==
  aOut # <<>> =>
    /\ \A i, j \in 1..Len(aOut[1].body.results) :
         i # j => <<aOut[1].body.results[i].date, aOut[1].body.results[i].windSpeedMph>>
                  # <<aOut[1].body.results[j].date, aOut[1].body.results[j].windSpeedMph>>
    /\ aOut[1].unique = EventsAt(aOut[1].filtered, FirstOfPair(aOut[1].filtered), 1)
    /\ uniqueEvents(aOut[1].unique) = aOut[1].unique

\* the dedup step has dropped an event whose type differs from the type of
\* the event kept for its pair
C10_Witness ==
  /\ aOut # <<>>
  /\ \E i, j \in 1..Len(aOut[1].filtered) :
       /\ i < j
       /\ DatePair(aOut[1].filtered[i]) = DatePair(aOut[1].filtered[j])
       /\ aOut[1].filtered[i].eventType # aOut[1].filtered[j].eventType
       /\ aOut[1].filtered[i] \in {aOut[1].unique[k] : k \in 1..Len(aOut[1].unique)}

\* the event has a latitude and a longitude (finite numbers, 0 included)
HasCoordinates(e) == e.lat # None /\ e.lon # None

\* the distance of an event with coordinates from the target, in thousandths
DistanceOf(e, geo) == haversineDistance(geo.lat, geo.lon, e.lat[1], e.lon[1])

\* the event has coordinates and lies within the radius (tenths of a mile)
InRadius(e, geo, radiusMiles) ==
  HasCoordinates(e) /\ DistanceOf(e, geo) <= radiusMiles * 100

\* the rows (by their number) the events of a list come from
RowsOf(events) == {events[i].src : i \in 1..Len(events)}

\* C11: when a radius above 0 is requested, an accumulated event passes the
\* radius step if and only if it has both coordinates (0 included) and its
\* distance from the target is at most the radius.
C11_PassesIffInRadius ==
  (aOut # <<>> /\ aIn.radiusMiles > 0) =>
    \A i \in 1..Len(aEvents) :
      (aEvents[i].src \in RowsOf(aOut[1].filtered))
        <=> InRadius(aEvents[i], aIn.geo, aIn.radiusMiles)

\* a distance in thousandths of a mile rounded to tenths of a mile
RoundToTenth(d) == (2 * d + 100) \div 200

\* C12: when a radius above 0 is requested, every record of the response has
\* a distanceMiles that is a number: the distance of its event from the
\* target rounded to one decimal, 0 for an event at the target itself.
C12_DistanceOnEveryRecord ==
  (aOut # <<>> /\ aIn.radiusMiles > 0) =>
    \A i \in 1..Len(aOut[1].unique) :
      /\ HasCoordinates(aOut[1].unique[i])
      /\ aOut[1].body.results[i].distanceMiles
           = Num(RoundToTenth(DistanceOf(aOut[1].unique[i], aIn.geo)))

\* the radius texts that stand for no radius: absent, zero, negative, not a number
NoRadiusTexts == {NULL, "0", "-5", "abc"}

\* C13: when the radius is absent, zero, negative or not a number, the events
\* that enter the dedup step are the accumulated events (sorted), with or
\* without coordinates; no event gets a distance; every record of the
\* response has distanceMiles null and the response has radiusMiles null.
C13_NoRadiusSkipsTheStep ==
  (aOut # <<>> /\ aIn.radius \in NoRadiusTexts) =>
    /\ aOut[1].filtered = aOut[1].sorted
    /\ Len(aOut[1].filtered) = Len(aEvents)
    /\ RowsOf(aOut[1].filtered) = RowsOf(aEvents)
    /\ \A i \in 1..Len(aOut[1].filtered) : aOut[1].filtered[i].distanceMiles = None
    /\ \A i \in 1..Len(aOut[1].body.results) :
         aOut[1].body.results[i].distanceMiles = None
    /\ aOut[1].body.radiusMiles = None

\* a negative radius was given, and the response lists an event without
\* coordinates next to an event with coordinates
C13_Witness ==
  /\ aOut # <<>>
  /\ aIn.radius = "-5"
  /\ \E i, j \in 1..Len(aOut[1].unique) :
       /\ ~HasCoordinates(aOut[1].unique[i])
       /\ HasCoordinates(aOut[1].unique[j])
  /\ Len(aOut[1].body.results) = Len(aOut[1].unique)

\* the positions of the records of the response that have the key of the event
RecordsWithKey(results, e) ==
  {i \in 1..Len(results) :
     <<results[i].date, results[i].windSpeedMph>> = DatePair(e)}

\* C19: when a radius above 0 is requested, for every accumulated event that
\* has coordinates and lies within the radius the response holds exactly one
\* record with its (date, windSpeedMph) key, and the event of that record
\* lies within the radius.
C19_InRadiusKeyAlwaysReported ==
  (aOut # <<>> /\ aIn.radiusMiles > 0) =>
    \A i \in 1..Len(aEvents) :
      InRadius(aEvents[i], aIn.geo, aIn.radiusMiles) =>
        LET records == RecordsWithKey(aOut[1].body.results, aEvents[i])
        IN /\ Cardinality(records) = 1
           /\ \A k \in records : InRadius(aOut[1].unique[k], aIn.geo, aIn.radiusMiles)

\* ------------------------------------------------------------------------
\* Properties of the county check (CountySpec)
\* ------------------------------------------------------------------------

\* the text t occurs in the text s
IsSubstring(t, s) ==
  \E i \in 0..Len(s) : \E j \in i..Len(s) : SubSeq(s, i + 1, j) = t

\* the text up to the first space
FirstToken(s) ==
  LET spaces == {i \in 1..Len(s) : Chr(s, i) = " "}
      stop == IF spaces = {} THEN Len(s) + 1
              ELSE CHOOSE i \in spaces : \A j \in spaces : i <= j
  IN SubSeq(s, 1, stop - 1)

\* two normalised names match: equal, one within the other, or equal first tokens
NamesMatch(a, b) ==
  \/ a = b
  \/ IsSubstring(a, b)
  \/ IsSubstring(b, a)
  \/ FirstToken(a) = FirstToken(b)

\* the row passes every check of the handler but, possibly, the county check
PassesOtherChecks(row) ==
  HandleRecord(row, [aIn.geo EXCEPT !.county = NULL], aIn.cutoff, <<0, 0>>) # <<>>

\* C16: a row that passes the other checks is accepted, for a target with a
\* county, if and only if the normalised names are equal, or one contains the
\* other, or their first tokens are equal; target Suffolk accepts the rows
\* named Suffolk County and Suffolk Co; without a target county no row is
\* rejected by the county check.
C16_CountyCheck ==
  (aLast # <<>> /\ PassesOtherChecks(aLast[1].row)) =>
    LET name == aLast[1].row.CZ_NAME
        target == aIn.geo.county
    IN /\ target = NULL => aLast[1].pushed
       /\ target # NULL =>
            (aLast[1].pushed <=> NamesMatch(normalizeName(name), normalizeName(target)))
       /\ (target = "Suffolk" /\ name \in {"Suffolk County", "Suffolk Co"})
            => aLast[1].pushed

\* a row was accepted whose name matches the target's by the first token only
C16_Witness ==
  /\ aLast # <<>>
  /\ aLast[1].pushed
  /\ aIn.geo.county = "St. Lawrence"
  /\ aLast[1].row.CZ_NAME = "ST. LOUIS"
  /\ Len(aEvents) = 1 /\ aRows = 2

====
